---- MODULE Spec2Model ----
(***************************************************************************)
(* NASLib (Rufaim fork): the MetaOptimizer contract                        *)
(* (naslib/optimizers/core/metaclasses.py), the nas_predictors runner      *)
(* (naslib/benchmarks/nas_predictors/runner.py) and the helpers of         *)
(* naslib/utils/utils.py.                                                  *)
(*                                                                         *)
(* Python values are kept as strings wherever two kinds of value meet, so  *)
(* that equality is always defined: "None" is Python's None, "none" in an  *)
(* err field means that no exception was raised.                           *)
(***************************************************************************)
EXTENDS Integers, Sequences, FiniteSets, TLC

VARIABLES
    obj,      \* the optimizer instance (one slot)
    tried,    \* the methods implemented by the class last instantiated
    last,     \* the last call made on the optimizer contract, with its outcome
    prev,     \* the call before it
    runner,   \* one execution of runner.py
    fs,       \* the directories that exist, each a path of components
    conf,     \* the outcome of the last get_config_from_args call
    ld,       \* the outcome of the last get_train_val_loaders call
    runs,     \* two processes, each with its random generators and outputs
    cuda,     \* torch.cuda.is_available() on this machine
    files,    \* the regular files that exist: path -> [readable, lines, data]
    glc,      \* the outcome of the last get_last_checkpoint call
    ckp,      \* a Checkpointer, its model and checkpointables, its last load
    pure      \* the last call of generate_kfold or pairwise and its result

contractVars == <<obj, tried, last, prev, runner>>

utilVars == <<fs, conf, ld, runs, cuda>>

helperVars == <<files, glc, ckp, pure>>

vars ==
    <<obj, tried, last, prev, runner, fs, conf, ld, runs, cuda,
      files, glc, ckp, pure>>

(***************************************************************************)
(* Bounds of the model.                                                    *)
(***************************************************************************)
MaxDepth == 2      \* longest chain of subclasses below MetaOptimizer
MaxEpoch == 1      \* epoch arguments are 0..MaxEpoch
MaxArch  == 1      \* a region's architecture choice is 0..MaxArch
MaxSteps == 2      \* step calls counted per optimizer instance
MaxAdapt == 2      \* adapt_search_space calls counted per instance

Regions == {"cell", "macro"}   \* named regions of the search-space graph

(***************************************************************************)
(* metaclasses.py: class MetaOptimizer(object, metaclass=ABCMeta)          *)
(***************************************************************************)

\* the methods decorated with @abstractmethod, one of them left undecorated
MetaOptimizer_abstractmethods_undecorated ==
    {"step", "adapt_search_space", "get_final_architecture"}

\* the methods decorated with @abstractmethod (lines 10, 28, 75, 86)
MetaOptimizer_abstractmethods ==
    {"step", "adapt_search_space", "get_final_architecture", "get_op_optimizer"}

\* the hooks defined with a body of `pass`
MetaOptimizer_hooks ==
    {"new_epoch", "before_training", "after_training", "get_model_size"}

\* A class is the chain of class bodies below MetaOptimizer, each body the set
\* of abstract methods it defines concretely; <<>> is MetaOptimizer itself.
Classes ==
    UNION {[1..d -> SUBSET MetaOptimizer_abstractmethods] : d \in 0..MaxDepth}

\* the methods some class body of the chain defines
Implemented(cls) == UNION {cls[i] : i \in 1..Len(cls)}

\* ABCMeta: cls.__abstractmethods__, the inherited abstract names that no
\* class body of the chain has overridden
AbstractMethodsOf(cls) == MetaOptimizer_abstractmethods \ Implemented(cls)

\* object.__new__ under ABCMeta: TypeError while __abstractmethods__ is not empty
CanInstantiate(cls) == AbstractMethodsOf(cls) = {}

NoObject ==
    [alive |-> FALSE, adapted |-> 0, scoped |-> FALSE, scope |-> {},
     graph |-> [r \in Regions |-> 0], opOpt |-> FALSE, steps |-> 0]

NoCall == [op |-> "none", arg |-> -1, ret |-> "None", err |-> "none"]

Call(op, arg, ret, err) == [op |-> op, arg |-> arg, ret |-> ret, err |-> err]

\* what is remembered of the call before the last one
Before(call) == [op |-> call.op, arg |-> call.arg]

\* MetaOptimizer(...) or Variant(...): the constructor call
Instantiate(cls) ==
    /\ ~obj.alive
    /\ tried' = Implemented(cls)
    /\ IF CanInstantiate(cls)
       THEN /\ obj' = [NoObject EXCEPT !.alive = TRUE]
            /\ last' = Call("construct", -1, "object", "none")
       ELSE /\ obj' = obj
            /\ last' = Call("construct", -1, "None", "TypeError")
    /\ prev' = Before(last)
    /\ UNCHANGED runner
    /\ UNCHANGED utilVars
    /\ UNCHANGED helperVars

\* a hook that keeps a counter: new_epoch forgetting the steps of the last epoch
DefaultHook_resets(self, hook, epoch) ==
    [state |-> [self EXCEPT !.steps = 0], ret |-> "None"]

\* new_epoch / before_training / after_training / get_model_size: the body is
\* `pass`, so the call returns None and assigns nothing
DefaultHook(self, hook, epoch) ==
    [state |-> self, ret |-> "None"]

new_epoch(epoch) ==
    /\ obj.alive
    /\ obj' = DefaultHook(obj, "new_epoch", epoch).state
    /\ last' = Call("new_epoch", epoch, DefaultHook(obj, "new_epoch", epoch).ret, "none")
    /\ prev' = Before(last)
    /\ UNCHANGED <<tried, runner>>
    /\ UNCHANGED utilVars
    /\ UNCHANGED helperVars

before_training ==
    /\ obj.alive
    /\ obj' = DefaultHook(obj, "before_training", -1).state
    /\ last' = Call("before_training", -1, DefaultHook(obj, "before_training", -1).ret, "none")
    /\ prev' = Before(last)
    /\ UNCHANGED <<tried, runner>>
    /\ UNCHANGED utilVars
    /\ UNCHANGED helperVars

after_training ==
    /\ obj.alive
    /\ obj' = DefaultHook(obj, "after_training", -1).state
    /\ last' = Call("after_training", -1, DefaultHook(obj, "after_training", -1).ret, "none")
    /\ prev' = Before(last)
    /\ UNCHANGED <<tried, runner>>
    /\ UNCHANGED utilVars
    /\ UNCHANGED helperVars

get_model_size ==
    /\ obj.alive
    /\ obj' = DefaultHook(obj, "get_model_size", -1).state
    /\ last' = Call("get_model_size", -1, DefaultHook(obj, "get_model_size", -1).ret, "none")
    /\ prev' = Before(last)
    /\ UNCHANGED <<tried, runner>>
    /\ UNCHANGED utilVars
    /\ UNCHANGED helperVars

(***************************************************************************)
(* The four required operations as the optimizer variants (Bananas,        *)
(* OneShotNASOptimizer, RandomNASOptimizer) implement them.  MetaOptimizer *)
(* only declares them; the variants are modelled from the design document. *)
(***************************************************************************)

\* the regions an adapted optimizer controls: all of them without a scope
EffectiveScope(self) == IF self.scoped THEN self.scope ELSE Regions

\* adapt_search_space(search_space, scope=None): binds the optimizer to a copy
\* of the space and builds its numeric optimizer; a space without the
\* structural hooks is refused at once
AdaptResult(self, hasHooks, scoped, scope) ==
    IF ~hasHooks
    THEN [state |-> self, ret |-> "None", err |-> "StructuralError"]
    ELSE [state |-> [self EXCEPT !.adapted = IF @ < MaxAdapt THEN @ + 1 ELSE @,
                                 !.scoped = scoped,
                                 !.scope = IF scoped THEN scope ELSE {},
                                 !.graph = [r \in Regions |-> 0],
                                 !.opOpt = TRUE],
          ret |-> "None", err |-> "none"]

adapt_search_space(hasHooks, scoped, scope) ==
    /\ obj.alive
    /\ scoped \/ scope = {}
    /\ obj' = AdaptResult(obj, hasHooks, scoped, scope).state
    /\ last' = Call("adapt_search_space", -1,
                    AdaptResult(obj, hasHooks, scoped, scope).ret,
                    AdaptResult(obj, hasHooks, scoped, scope).err)
    /\ prev' = Before(last)
    /\ UNCHANGED <<tried, runner>>
    /\ UNCHANGED utilVars
    /\ UNCHANGED helperVars

\* a step that picks the region to update among all regions of the graph
StepRegions_unscoped(self) == Regions

\* the regions one step may update
StepRegions(self) == EffectiveScope(self)

\* step(data_train, data_val): one optimization iteration; it updates the
\* architecture choice of at most one region it controls and returns the
\* statistics mapping.  Before adaptation the call is invalid.
StepResult(self, touched, choice) ==
    IF self.adapted = 0
    THEN [state |-> self, ret |-> "None", err |-> "NotAdapted"]
    ELSE [state |-> [self EXCEPT
                       !.steps = IF @ < MaxSteps THEN @ + 1 ELSE @,
                       !.graph = [r \in Regions |->
                                    IF r \in touched THEN choice ELSE @[r]]],
          ret |-> "stats", err |-> "none"]

step(touched, choice) ==
    /\ obj.alive
    /\ touched \subseteq StepRegions(obj)
    /\ Cardinality(touched) <= 1
    /\ obj' = StepResult(obj, touched, choice).state
    /\ last' = Call("step", -1, StepResult(obj, touched, choice).ret,
                    StepResult(obj, touched, choice).err)
    /\ prev' = Before(last)
    /\ UNCHANGED <<tried, runner>>
    /\ UNCHANGED utilVars
    /\ UNCHANGED helperVars

\* get_final_architecture(): the discretized snapshot of the optimizer's graph
get_final_architecture ==
    /\ obj.alive
    /\ obj' = obj
    /\ last' = IF obj.adapted = 0
               THEN Call("get_final_architecture", -1, "None", "NotAdapted")
               ELSE Call("get_final_architecture", -1, "architecture", "none")
    /\ prev' = Before(last)
    /\ UNCHANGED <<tried, runner>>
    /\ UNCHANGED utilVars
    /\ UNCHANGED helperVars

\* a variant that builds its numeric optimizer lazily, in the first step
OpOptimizerOf_lazy(self) ==
    IF self.opOpt /\ self.steps > 0 THEN "optimizer" ELSE "None"

\* what get_op_optimizer() hands out: the numeric optimizer built by
\* adapt_search_space, None before
OpOptimizerOf(self) ==
    IF self.opOpt THEN "optimizer" ELSE "None"

get_op_optimizer ==
    /\ obj.alive
    /\ obj' = obj
    /\ last' = Call("get_op_optimizer", -1, OpOptimizerOf(obj), "none")
    /\ prev' = Before(last)
    /\ UNCHANGED <<tried, runner>>
    /\ UNCHANGED utilVars
    /\ UNCHANGED helperVars

(***************************************************************************)
(* runner.py: the module body                                              *)
(***************************************************************************)

\* def get_config_from_args(args=None): the parameter names        (utils.py)
get_config_from_args_params == {"args"}

\* the keywords of the call utils.get_config_from_args(config_type='nas_predictor')
runner_config_kwargs == {"config_type"}

\* Python binds a keyword argument only to a parameter of that name (the
\* function has no **kwargs); any other keyword raises TypeError
CallBinds(params, kwargs) == kwargs \subseteq params

supported_optimizers == {"bananas", "oneshot", "rsws"}

supported_search_spaces == {"nasbench101", "nasbench201", "darts"}

OptimizerNames == supported_optimizers \cup {"darts_opt"}

SearchSpaceNames == supported_search_spaces \cup {"nlp"}

Ev(recv, fn, arg) == [recv |-> recv, fn |-> fn, arg |-> arg]

Exit(pc, error, calls) == [pc |-> pc, error |-> error, calls |-> calls]

\* the run with the configuration it was started with
Started(optimizer, search_space, exit) ==
    [pc |-> exit.pc, error |-> exit.error, calls |-> exit.calls,
     optimizer |-> optimizer, search_space |-> search_space]

\* lines 17-37: seeding, logging, the three optimizers and the three search
\* spaces are all constructed, then the dataset api is fetched
RunnerSetup(search_space) ==
    << Ev("utils", "set_seed", "seed"),
       Ev("naslib.utils", "setup_logger", "save"),
       Ev("utils", "log_args", "config"),
       Ev("Bananas", "construct", "config"),
       Ev("OneShotNASOptimizer", "construct", "config"),
       Ev("RandomNASOptimizer", "construct", "config"),
       Ev("NasBench101SearchSpace", "construct", "nasbench101"),
       Ev("NasBench201SearchSpace", "construct", "nasbench201"),
       Ev("DartsSearchSpace", "construct", "darts"),
       Ev("naslib.utils", "get_dataset_api", search_space) >>

\* lines 44-58: the Trainer, then search and evaluation by optimizer kind
RunnerTrain(optimizer, search_space) ==
    << Ev("Trainer", "construct", optimizer) >> \o
    (IF optimizer = "bananas"
     THEN << Ev("trainer", "search", ""),
             Ev("trainer", "evaluate", "") >>
     ELSE IF optimizer \in {"oneshot", "rsws"}
     THEN << Ev("OneShotPredictor", "construct", "trainer"),
             Ev("PredictorEvaluator", "construct", "predictor"),
             Ev("predictor_evaluator", "adapt_search_space", search_space),
             Ev("predictor_evaluator", "evaluate", "") >>
     ELSE << >>)

\* lines 17-58, run to the end or to the first exception
RunnerBody(optimizer, search_space) ==
    LET got == << Ev("utils", "get_config_from_args", "config_type") >>
                  \o RunnerSetup(search_space)
    IN  IF search_space \notin supported_search_spaces        \* line 39
        THEN Exit("fatal", "KeyError", got)
        ELSE IF optimizer \notin supported_optimizers         \* line 41
        THEN Exit("fatal", "KeyError", got)
        ELSE Exit("done", "none",
                  got \o << Ev("optimizer", "adapt_search_space", search_space) >>
                      \o RunnerTrain(optimizer, search_space))

\* the whole script for one command line: line 15 first
RunScript(optimizer, search_space) ==
    IF ~CallBinds(get_config_from_args_params, runner_config_kwargs)
    THEN Exit("fatal", "TypeError",
              << Ev("utils", "get_config_from_args", "config_type") >>)
    ELSE RunnerBody(optimizer, search_space)

RunnerIdle ==
    [pc |-> "start", error |-> "none", calls |-> << >>,
     optimizer |-> "", search_space |-> ""]

\* python runner.py ... with the configuration naming (optimizer, search_space)
RunRunner(optimizer, search_space) ==
    /\ runner.pc = "start"
    /\ runner' = Started(optimizer, search_space, RunScript(optimizer, search_space))
    /\ UNCHANGED <<obj, tried, last, prev>>
    /\ UNCHANGED utilVars
    /\ UNCHANGED helperVars

(***************************************************************************)
(* utils.py: get_config_from_args and create_exp_dir                       *)
(*                                                                         *)
(* A configuration value is a record [t, v]: t is the Python type of the   *)
(* value ("int", "str", or "absent" for a key the config does not hold)    *)
(* and v is the text str(value).                                           *)
(***************************************************************************)
MaxOpts == 4       \* the command line holds at most MaxOpts option words
MaxCalls == 2      \* get_config_from_args calls made over one file system

Val(t, v) == [t |-> t, v |-> v]

Absent == Val("absent", "")

\* the words a command line is made of: names and values
OptNames == {"seed", "dataset", "epochs", "search.epochs", "save"}

OptValues == {"1", "01", "svhn"}

OptWords == OptNames \cup OptValues

\* the keys a configuration can hold
ConfigKeys ==
    OptWords \cup {"out_dir", "config_type", "search_space", "predictor",
                   "search", "save", "data", "train_data_file", "test_data_file"}

\* "." in arg, and arg.split(".")
HasDot(arg) == arg = "search.epochs"

DotHead(arg) == IF arg = "search.epochs" THEN "search" ELSE arg

\* str.isnumeric(): every character is a digit
IsNumeric(v) == v \in {"1", "01"}

\* int(v): the text of the integer, "ValueError" when v is no integer literal
IntOf(v) == IF v \in {"1", "01"} THEN "1" ELSE "ValueError"

\* t(value) for the type t of a configuration value
Construct(t, value) ==
    IF t = "int"
    THEN (IF IntOf(value) = "ValueError" THEN Val("ValueError", value)
          ELSE Val("int", IntOf(value)))
    ELSE Val("str", value)

\* yacs _decode_cfg_value: ast.literal_eval of the word, the word itself when
\* it is no Python literal ("01" is none: leading zeros are a syntax error)
Decode(value) == IF value = "1" THEN Val("int", "1") ELSE Val("str", value)

\* the configuration files: configs/predictor_config.yaml and two files given
\* with --config-file, the second of them without a predictor entry
BaseFile ==
    [k \in ConfigKeys |->
        CASE k = "out_dir"       -> Val("str", "run")
          [] k = "config_type"   -> Val("str", "nas_predictor")
          [] k = "search_space"  -> Val("str", "nasbench201")
          [] k = "dataset"       -> Val("str", "cifar10")
          [] k = "predictor"     -> Val("str", "bananas")
          [] k = "seed"          -> Val("int", "0")
          [] k = "search"        -> Val("CfgNode", "search")
          [] k = "search.epochs" -> Val("int", "100")
          [] OTHER               -> Absent]

ConfigFiles ==
    [ default |-> BaseFile,
      given   |-> [BaseFile EXCEPT !["seed"] = Val("int", "2"),
                                   !["search"] = Absent,
                                   !["search.epochs"] = Absent],
      partial |-> [BaseFile EXCEPT !["predictor"] = Absent] ]

\* load_default_config / load_config(path)
LoadConfig(config_file) ==
    IF config_file = "None" THEN ConfigFiles.default ELSE ConfigFiles[config_file]

\* zip(a, a) for one iterator a over rest: each round takes next(a) twice
\* and ends at the first StopIteration, whichever of the two raises it
RECURSIVE ZipSame(_)
ZipSame(rest) ==
    IF rest = << >> THEN << >>
    ELSE IF Tail(rest) = << >> THEN << >>
    ELSE << <<Head(rest), Head(Tail(rest))>> >> \o ZipSame(Tail(Tail(rest)))

\* the pairs of neighbours s -> (s0, s1), (s1, s2), ... instead
pairwise_sliding(words) ==
    [i \in 1..(IF words = << >> THEN 0 ELSE Len(words) - 1) |->
        <<words[i], words[i + 1]>>]

\* pairwise(iterable): a = iter(iterable); zip(a, a)
pairwise(words) == ZipSame(words)

Ok(cfg) == [err |-> "none", cfg |-> cfg]

Raise(err, cfg) == [err |-> err, cfg |-> cfg]

\* lines 137-147: one (arg, value) pair of the override loop
OverrideOne(cfg, arg, value) ==
    IF HasDot(arg)
    THEN IF cfg[DotHead(arg)].t = "absent" \/ cfg[arg].t = "absent"
         THEN Raise("KeyError", cfg)
         ELSE IF Construct(cfg[arg].t, value).t = "ValueError"
         THEN Raise("ValueError", cfg)
         ELSE Ok([cfg EXCEPT ![arg] = Construct(cfg[arg].t, value)])
    ELSE LET t == IF cfg[arg].t # "absent" THEN cfg[arg].t
                  ELSE IF IsNumeric(value) THEN "int" ELSE "str"
         IN  IF Construct(t, value).t = "ValueError"
             THEN Raise("ValueError", cfg)
             ELSE Ok([cfg EXCEPT ![arg] = Construct(t, value)])

\* lines 136-147: the loop over pairwise(args.opts), left at the first exception
RECURSIVE OverrideLoop(_, _)
OverrideLoop(cfg, pairs) ==
    IF pairs = << >> THEN Ok(cfg)
    ELSE LET r == OverrideOne(cfg, Head(pairs)[1], Head(pairs)[2])
         IN  IF r.err # "none" THEN r ELSE OverrideLoop(r.cfg, Tail(pairs))

\* merge_from_list without the check of the decoded word's type
MergeOne_unchecked(cfg, key, value) ==
    IF cfg[DotHead(key)].t = "absent" \/ cfg[key].t = "absent"
    THEN Raise("AssertionError", cfg)
    ELSE Ok([cfg EXCEPT ![key] = Decode(value)])

\* yacs merge_from_list, one pair: the key must exist, the decoded word must
\* have the type of the value it replaces
MergeOne(cfg, key, value) ==
    IF cfg[DotHead(key)].t = "absent" \/ cfg[key].t = "absent"
    THEN Raise("AssertionError", cfg)
    ELSE IF Decode(value).t # cfg[key].t
    THEN Raise("ValueError", cfg)
    ELSE Ok([cfg EXCEPT ![key] = Decode(value)])

RECURSIVE MergeLoop(_, _)
MergeLoop(cfg, pairs) ==
    IF pairs = << >> THEN Ok(cfg)
    ELSE LET r == MergeOne(cfg, Head(pairs)[1], Head(pairs)[2])
         IN  IF r.err # "none" THEN r ELSE MergeLoop(r.cfg, Tail(pairs))

\* line 151: config.merge_from_list(args.opts); an odd number of words is refused
merge_from_list(cfg, opts) ==
    IF Len(opts) % 2 # 0 THEN Raise("AssertionError", cfg)
    ELSE MergeLoop(cfg, pairwise(opts))

\* lines 135-151: the try block; neither exception it can raise here is the
\* AttributeError the except clause catches
Overrides(cfg, opts) ==
    LET r == OverrideLoop(cfg, pairwise(opts))
    IN  IF r.err # "none" THEN r ELSE merge_from_list(r.cfg, opts)

\* lines 157-162: the data files, from --datapath
WithDataFiles(cfg, datapath) ==
    IF datapath # "None"
    THEN [cfg EXCEPT !["train_data_file"] = Val("str", "datapath/train.json"),
                     !["test_data_file"] = Val("str", "datapath/test.json")]
    ELSE [cfg EXCEPT !["train_data_file"] = Val("NoneType", "None"),
                     !["test_data_file"] = Val("NoneType", "None")]

\* lines 157-173: the keys get_config_from_args assigns after the merge
AssignedKeys == {"train_data_file", "test_data_file", "save", "data"}

SaveFields ==
    <<"out_dir", "config_type", "search_space", "dataset", "predictor", "seed">>

\* lines 165-172: "{}/{}/{}/{}/{}/{}".format(...), kept as the path's components
SavePath(cfg) == [i \in 1..Len(SaveFields) |-> cfg[SaveFields[i]].v]

\* the experiment directory of the default configuration
DefaultSave == SavePath(ConfigFiles.default)

\* a path and every directory above it
Prefixes(path) == {SubSeq(path, 1, k) : k \in 1..Len(path)}

\* create_exp_dir with the test turned round
create_exp_dir_inverted(dirs, path) ==
    IF path \in dirs THEN dirs \cup Prefixes(path) ELSE dirs

\* create_exp_dir(path): os.makedirs(path, exist_ok=True) unless the path exists
create_exp_dir(dirs, path) ==
    IF path \notin dirs THEN dirs \cup Prefixes(path) ELSE dirs

\* lines 175-177: the three experiment directories
PrepareDirs(dirs, save) ==
    create_exp_dir(
        create_exp_dir(create_exp_dir(dirs, save), save \o <<"search">>),
        save \o <<"eval">>)

ExpDirs(save) == {save, save \o <<"search">>, save \o <<"eval">>}

ConfIdle ==
    [ret |-> "idle", err |-> "none", cfg |-> [k \in ConfigKeys |-> Absent],
     save |-> << >>, existed |-> FALSE, calls |-> 0, file |-> "None",
     opts |-> << >>]

\* get_config_from_args(args) for args = (config_file, opts, datapath)
get_config_from_args(config_file, opts, datapath) ==
    LET merged == Overrides(LoadConfig(config_file), opts)
        idle   == [ConfIdle EXCEPT !.file = conf.file, !.opts = opts]
        filed  == WithDataFiles(merged.cfg, datapath)
        save   == SavePath(filed)
        \* the text of config.save is kept as its components, in conf.save
        done   == [filed EXCEPT !["save"] = Val("str", "save"),
                                !["data"] = Val("str", "root/data")]
    IN  IF merged.err # "none"
        THEN /\ conf' = [idle EXCEPT !.ret = "None", !.err = merged.err,
                                        !.calls = conf.calls + 1]
             /\ fs' = fs
        ELSE IF \E i \in 1..Len(SaveFields) : filed[SaveFields[i]].t = "absent"
        THEN /\ conf' = [idle EXCEPT !.ret = "None", !.err = "AttributeError",
                                        !.calls = conf.calls + 1]
             /\ fs' = fs
        ELSE /\ conf' = [ret |-> "config", err |-> "none", cfg |-> done,
                         save |-> save, existed |-> ExpDirs(save) \subseteq fs,
                         calls |-> conf.calls + 1, file |-> conf.file,
                         opts |-> opts]
             /\ fs' = PrepareDirs(fs, save)

\* one call made by the process: its command line (conf.file, conf.opts) is
\* the one it was started with
GetConfig(datapath) ==
    /\ conf.calls < MaxCalls
    /\ get_config_from_args(conf.file, conf.opts, datapath)
    /\ UNCHANGED <<ld, runs, cuda>>
    /\ UNCHANGED contractVars
    /\ UNCHANGED helperVars

\* args.opts: names and values in turn
OptLists ==
    UNION { {o \in [1..n -> OptWords] :
               \A i \in 1..n : o[i] \in (IF i % 2 = 1 THEN OptNames ELSE OptValues)}
            : n \in 0..MaxOpts }

ConfigFileArgs == {"None", "given", "partial"}

(***************************************************************************)
(* utils.py: set_seed, and the random generators of a process              *)
(***************************************************************************)
MaxSeed == 1       \* seeds are 0..MaxSeed
MaxOps  == 2       \* operations recorded per process after set_seed
RngMod  == 2       \* a generator has RngMod internal states
MaxTrain == 2      \* a training set holds 0..MaxTrain examples

Procs == {"A", "B"}

\* the state a generator is put in by seeding it
SeedState(seed) == seed % RngMod

\* one draw: the value handed out and the generator's next state
DrawValue(state) == state

Advance(state) == (state + 1) % RngMod

\* set_seed that leaves Python's own generator alone
set_seed_without_random(p, seed) ==
    [p EXCEPT !.np = SeedState(seed),
              !.torch = SeedState(seed),
              !.cudnn = IF cuda THEN "deterministic" ELSE @,
              !.seed = seed, !.ops = << >>, !.out = << >>]

\* set_seed(seed): numpy, random and torch are seeded, and cudnn is made
\* deterministic where CUDA is available (torch.manual_seed seeds the CUDA
\* generators as well).  ops and out restart: they record what follows.
set_seed(p, seed) ==
    [p EXCEPT !.np = SeedState(seed),
              !.py = SeedState(seed),
              !.torch = SeedState(seed),
              !.cudnn = IF cuda THEN "deterministic" ELSE @,
              !.seed = seed, !.ops = << >>, !.out = << >>]

\* an operation and its output are recorded once the process is seeded
Record(p, op, output) ==
    IF p.seed < 0 THEN p
    ELSE [p EXCEPT !.ops = Append(@, op), !.out = Append(@, output)]

SetSeed(r, seed) ==
    /\ runs' = [runs EXCEPT ![r] = set_seed(@, seed)]
    /\ UNCHANGED <<fs, conf, ld, cuda>>
    /\ UNCHANGED contractVars
    /\ UNCHANGED helperVars

\* random.random() and the like
RandomDraw(r) ==
    /\ Len(runs[r].ops) < MaxOps
    /\ runs' = [runs EXCEPT ![r] =
                  Record([@ EXCEPT !.py = Advance(@)],
                         <<"random", "", -1>>, <<DrawValue(runs[r].py), -1>>)]
    /\ UNCHANGED <<fs, conf, ld, cuda>>
    /\ UNCHANGED contractVars
    /\ UNCHANGED helperVars

\* np.random.* (Cutout draws its mask position this way)
NumpyDraw(r) ==
    /\ Len(runs[r].ops) < MaxOps
    /\ runs' = [runs EXCEPT ![r] =
                  Record([@ EXCEPT !.np = Advance(@)],
                         <<"numpy", "", -1>>, <<DrawValue(runs[r].np), -1>>)]
    /\ UNCHANGED <<fs, conf, ld, cuda>>
    /\ UNCHANGED contractVars
    /\ UNCHANGED helperVars

\* one search step of an optimizer: its statistics are computed from a torch
\* draw (sampling, initialisation) and a numpy draw (augmentation)
StepDraw(r) ==
    /\ Len(runs[r].ops) < MaxOps
    /\ runs' = [runs EXCEPT ![r] =
                  Record([@ EXCEPT !.torch = Advance(@), !.np = Advance(@)],
                         <<"step", "", -1>>,
                         <<DrawValue(runs[r].torch), DrawValue(runs[r].np)>>)]
    /\ UNCHANGED <<fs, conf, ld, cuda>>
    /\ UNCHANGED contractVars
    /\ UNCHANGED helperVars

(***************************************************************************)
(* utils.py: get_train_val_loaders                                         *)
(***************************************************************************)

\* the dataset names the if/elif chain of lines 204-325 compares with
KnownDatasets ==
    {"cifar10", "cifar100", "svhn", "ImageNet16-120", "scifar100", "ninapro",
     "jigsaw", "class_object", "class_scene", "autoencoder", "segmentsemantic",
     "normal", "room_layout"}

DatasetNames == KnownDatasets \cup {"mnist", "CIFAR10", "imagenet"}

\* str.lower() on the names that have capitals
Lower(name) ==
    CASE name = "CIFAR10"        -> "cifar10"
      [] name = "ImageNet16-120" -> "imagenet16-120"
      [] OTHER                   -> name

\* a chain that compares the names without regard to case
DatasetBranch_caseless(dataset) ==
    IF \E k \in KnownDatasets : Lower(k) = Lower(dataset)
    THEN CHOOSE k \in KnownDatasets : Lower(k) = Lower(dataset)
    ELSE "else"

\* the branch of the chain taken for a dataset name: == on strings
DatasetBranch(dataset) ==
    IF dataset \in KnownDatasets THEN dataset ELSE "else"

\* int(np.floor(config.train_portion * num_train)), the portion in percent
SplitAt(percent, num_train) == (percent * num_train) \div 100

\* np.random.seed(seed): the generator's state no longer depends on the old one
NumpySeed(state, seed) == SeedState(seed)

\* lines 340, 349, 358: worker_init_fn=np.random.seed(...) is evaluated as the
\* argument is built, so numpy is re-seeded with seed+1, seed and seed
NumpyAfterLoaders(state, seed) ==
    NumpySeed(NumpySeed(NumpySeed(state, seed + 1), seed), seed)

LdIdle ==
    [ret |-> "idle", err |-> "none", named |-> "", dataset |-> "",
     loaders |-> 0, train |-> 0, valid |-> 0]

\* get_train_val_loaders(config) in process r; dataOk says whether the files
\* of the dataset can be read, numTrain is len(train_data)
get_train_val_loaders(r, dataset, seed, percent, dataOk, numTrain) ==
    IF DatasetBranch(dataset) = "else"
    THEN /\ ld' = [LdIdle EXCEPT !.ret = "None", !.err = "ValueError",
                                 !.named = dataset, !.dataset = dataset]
         /\ runs' = [runs EXCEPT ![r] =
                       Record(@, <<"loaders", dataset, seed>>, <<-1, -1>>)]
    ELSE IF ~dataOk
    THEN /\ ld' = [LdIdle EXCEPT !.ret = "None", !.err = "OSError",
                                 !.dataset = dataset]
         /\ runs' = [runs EXCEPT ![r] =
                       Record(@, <<"loaders", dataset, seed>>, <<-1, -1>>)]
    ELSE /\ ld' = [ret |-> "loaders", err |-> "none", named |-> "",
                   dataset |-> dataset, loaders |-> 3,
                   train |-> SplitAt(percent, numTrain),
                   valid |-> numTrain - SplitAt(percent, numTrain)]
         /\ runs' = [runs EXCEPT ![r] =
                       Record([@ EXCEPT !.np = NumpyAfterLoaders(@, seed)],
                              <<"loaders", dataset, seed>>, <<3, -1>>)]

GetLoaders(r, dataset, seed, percent, dataOk, numTrain) ==
    /\ Len(runs[r].ops) < MaxOps
    /\ get_train_val_loaders(r, dataset, seed, percent, dataOk, numTrain)
    /\ UNCHANGED <<fs, conf, cuda>>
    /\ UNCHANGED contractVars
    /\ UNCHANGED helperVars

Unseeded(np, py, torch) ==
    [seed |-> -1, np |-> np, py |-> py, torch |-> torch, cudnn |-> "default",
     ops |-> << >>, out |-> << >>]

RunsIdle == [r \in Procs |-> Unseeded(0, 0, 0)]

\* config.seed of a process: the seed it gave to set_seed (runner.py line 17)
ConfigSeed(p) == IF p.seed < 0 THEN 0 ELSE p.seed

(***************************************************************************)
(* utils.py: get_last_checkpoint                                           *)
(*                                                                         *)
(* A regular file is a record [readable, lines, data]: whether this        *)
(* process may open it, its text as lines, and, for a checkpoint file, the *)
(* dict torch.load gives.  The pointer file last_checkpoint is written by  *)
(* fvcore's Checkpointer.tag_last_checkpoint: the basename of the latest   *)
(* checkpoint on one line with no line end; an empty one is a write that   *)
(* was cut short.                                                          *)
(***************************************************************************)
File(readable, lines, data) ==
    [readable |-> readable, lines |-> lines, data |-> data]

\* the dict of a file that is no checkpoint
NoData == << >>

CheckpointNames == {"model_0.pth", "model_1.pth"}

\* the first argument of get_last_checkpoint: a config that has a save
\* attribute (its path as components) or one that has none
Config(has, save) == [has |-> has, save |-> save]

GivenSave == SavePath(ConfigFiles.given)

GlcConfigs ==
    {Config(TRUE, DefaultSave), Config(TRUE, GivenSave), Config(FALSE, << >>)}

\* "search" if search else "eval"
SubOf(search) == IF search THEN "search" ELSE "eval"

\* os.path.join(save, sub, name) for relative sub and name
PathJoin(save, sub, name) == save \o <<sub, name>>

\* f.readline() on a freshly opened file: the first line, "" at end of file
readline(lines) == IF lines = << >> THEN "" ELSE lines[1]

\* open(path, "r"): the exception it raises, "none" when the file opens
OpenRead(fl, dirs, path) ==
    IF path \in dirs THEN "IsADirectoryError"
    ELSE IF path \notin DOMAIN fl THEN "FileNotFoundError"
    ELSE IF ~fl[path].readable THEN "PermissionError"
    ELSE "none"

\* an except clause that names the missing file only
ExceptClause_file_not_found(exc) == exc = "FileNotFoundError"

\* line 860: a bare except catches every exception
ExceptClause(exc) == TRUE

\* lines 852-859: the body of the try block
LastCheckpointTry(fl, dirs, config, search) ==
    IF ~config.has
    THEN [err |-> "AttributeError", path |-> << >>]
    ELSE LET path == PathJoin(config.save, SubOf(search), "last_checkpoint")
         IN  IF OpenRead(fl, dirs, path) # "none"
             THEN [err |-> OpenRead(fl, dirs, path), path |-> << >>]
             ELSE [err |-> "none",
                   path |-> PathJoin(config.save, SubOf(search),
                                     readline(fl[path].lines))]

\* get_last_checkpoint(config, search): ret is the returned path, << >> for ""
get_last_checkpoint(fl, dirs, config, search) ==
    LET r == LastCheckpointTry(fl, dirs, config, search)
    IN  IF r.err = "none" THEN [ret |-> r.path, err |-> "none"]
        ELSE IF ExceptClause(r.err) THEN [ret |-> << >>, err |-> "none"]
        ELSE [ret |-> << >>, err |-> r.err]

GlcIdle ==
    [called |-> FALSE, config |-> Config(FALSE, << >>), search |-> TRUE,
     ret |-> << >>, err |-> "none"]

GetLastCheckpoint(config, search) ==
    /\ glc' = [called |-> TRUE, config |-> config, search |-> search,
               ret |-> get_last_checkpoint(files, fs, config, search).ret,
               err |-> get_last_checkpoint(files, fs, config, search).err]
    /\ UNCHANGED <<files, ckp, pure>>
    /\ UNCHANGED contractVars
    /\ UNCHANGED utilVars

(***************************************************************************)
(* utils.py: class Checkpointer(fvCheckpointer), method load               *)
(*                                                                         *)
(* A state dict is a number; an object that loaded it is in the state of   *)
(* that number, 0 before any load.  A dict is a function from its keys.    *)
(***************************************************************************)
MaxList == 2       \* the checkpointables argument lists at most MaxList names

\* self.checkpointables: the objects registered with the Checkpointer, in
\* the order of the dict
Registered == <<"optimizer", "scheduler">>

CkptKeys == {"model", "optimizer", "scheduler", "iteration"}

\* the dict without one key: what dict.pop(key) leaves
Without(d, key) == [k \in (DOMAIN d) \ {key} |-> d[k]]

\* the checkpointables argument: None, or a list of names
Selection(all, names) == [all |-> all, names |-> names]

Selections ==
    {Selection(TRUE, << >>)} \cup
    UNION { {Selection(FALSE, l) : l \in [1..n -> {"optimizer", "scheduler", "iteration"}]}
            : n \in 0..MaxList }

\* line 1211: not path
NoPath_never(path) == FALSE

NoPath(path) == path = << >>

\* os.path.isfile(path)
IsFile(fl, path) == path \in DOMAIN fl

\* fvcore _load_file: torch.load of the file
LoadFile(fl, path) ==
    IF ~fl[path].readable
    THEN [err |-> "PermissionError", checkpoint |-> << >>]
    ELSE [err |-> "none", checkpoint |-> fl[path].data]

\* line 1221, fvcore _load_model: checkpoint.pop("model") is loaded into
\* self.model
LoadModel(model, checkpoint) ==
    IF "model" \notin DOMAIN checkpoint
    THEN [err |-> "KeyError", model |-> model, checkpoint |-> checkpoint]
    ELSE [err |-> "none", model |-> checkpoint["model"],
          checkpoint |-> Without(checkpoint, "model")]

\* line 1227: the keys the loop goes through
SelectedKeys(checkpointables) ==
    IF checkpointables.all THEN Registered ELSE checkpointables.names

\* lines 1228-1234 with the key left in the dict
LoadKey_keeps(st, key, failing) ==
    IF key \notin DOMAIN st.checkpoint THEN st
    ELSE IF \A i \in 1..Len(Registered) : Registered[i] # key
    THEN [st EXCEPT !.err = "KeyError"]
    ELSE [st EXCEPT
            !.handed = @ \cup {<<key, st.checkpoint[key]>>},
            !.parts = IF key \in failing THEN @
                      ELSE [@ EXCEPT ![key] = st.checkpoint[key]]]

\* lines 1228-1234, one key: obj.load_state_dict(checkpoint.pop(key)), an
\* exception of load_state_dict (for the objects in failing) swallowed
LoadKey(st, key, failing) ==
    IF key \notin DOMAIN st.checkpoint THEN st
    ELSE IF \A i \in 1..Len(Registered) : Registered[i] # key
    THEN [st EXCEPT !.err = "KeyError"]
    ELSE [st EXCEPT
            !.checkpoint = Without(@, key),
            !.handed = @ \cup {<<key, st.checkpoint[key]>>},
            !.parts = IF key \in failing THEN @
                      ELSE [@ EXCEPT ![key] = st.checkpoint[key]]]

\* lines 1227-1234: the loop, left at the first exception
RECURSIVE LoadLoop(_, _, _)
LoadLoop(st, keys, failing) ==
    IF keys = << >> \/ st.err # "none" THEN st
    ELSE LoadLoop(LoadKey(st, Head(keys), failing), Tail(keys), failing)

CkpIdle ==
    [called |-> FALSE, path |-> << >>, checkpointables |-> Selection(TRUE, << >>),
     model |-> 0, parts |-> [k \in {"optimizer", "scheduler"} |-> 0],
     read |-> {}, file |-> << >>, handed |-> {}, ret |-> << >>,
     err |-> "none"]

\* Checkpointer.load(path, checkpointables): the Checkpointer after the call;
\* read is the set of files the call read, file the dict it found there,
\* handed the (key, state dict) pairs given to a load_state_dict, ret the
\* returned dict
load(self, fl, path, checkpointables, failing) ==
    LET called == [self EXCEPT !.called = TRUE, !.path = path,
                               !.checkpointables = checkpointables,
                               !.read = {}, !.file = << >>, !.handed = {},
                               !.ret = << >>, !.err = "none"]
    IN  IF NoPath(path) THEN called
        ELSE IF ~IsFile(fl, path) THEN [called EXCEPT !.err = "AssertionError"]
        ELSE LET f == LoadFile(fl, path)
                 m == LoadModel(self.model, f.checkpoint)
                 l == LoadLoop([err |-> "none", checkpoint |-> m.checkpoint,
                                parts |-> self.parts, handed |-> {}],
                               SelectedKeys(checkpointables), failing)
             IN  IF f.err # "none"
                 THEN [called EXCEPT !.read = {path}, !.err = f.err]
                 ELSE IF m.err # "none"
                 THEN [called EXCEPT !.read = {path}, !.file = f.checkpoint,
                                     !.err = m.err]
                 ELSE [called EXCEPT
                         !.read = {path}, !.file = f.checkpoint,
                         !.model = m.model, !.parts = l.parts,
                         !.handed = l.handed, !.err = l.err,
                         !.ret = IF l.err = "none" THEN l.checkpoint ELSE << >>]

Load(path, checkpointables, failing) ==
    /\ ckp' = load(ckp, files, path, checkpointables, failing)
    /\ UNCHANGED <<files, glc, pure>>
    /\ UNCHANGED contractVars
    /\ UNCHANGED utilVars

(***************************************************************************)
(* utils.py: generate_kfold, and the calls of the two pure helpers         *)
(***************************************************************************)
MaxN == 5          \* generate_kfold is called with n in 0..MaxN
MaxK == 3          \* and with k in 0..MaxK
MaxLen == 4        \* pairwise is called on at most MaxLen items

\* np.array(range(n))
Range(n) == [i \in 1..n |-> i - 1]

Least(a, b) == IF a <= b THEN a ELSE b

\* a[lo:hi] and a[lo:] for 0 <= lo <= hi: the bounds are cut to the length
Slice(a, lo, hi) == SubSeq(a, Least(lo, Len(a)) + 1, Least(hi, Len(a)))

SliceFrom(a, lo) == SubSeq(a, Least(lo, Len(a)) + 1, Len(a))

\* np.concatenate of a list of arrays
RECURSIVE Concatenate(_)
Concatenate(arrays) ==
    IF arrays = << >> THEN << >>
    ELSE Head(arrays) \o Concatenate(Tail(arrays))

\* the folds with the last one cut to fold_size like the others
FoldIndices_even(n, k) ==
    [i \in 1..k |-> Slice(Range(n), (i - 1) * (n \div k), i * (n \div k))]

\* lines 1010-1014: fold_indices, the last fold taking what remains
FoldIndices(n, k) ==
    [i \in 1..k |->
        IF i < k THEN Slice(Range(n), (i - 1) * (n \div k), i * (n \div k))
        ELSE SliceFrom(Range(n), (k - 1) * (n \div k))]

\* [fold_indices[j] for j in range(k) if j != i]
RECURSIVE OtherFolds(_, _, _)
OtherFolds(folds, i, j) ==
    IF j > Len(folds) THEN << >>
    ELSE (IF j # i THEN <<folds[j]>> ELSE << >>) \o OtherFolds(folds, i, j + 1)

\* generate_kfold(n, k): the list of (training indices, validation indices)
generate_kfold(n, k) ==
    IF ~(k >= 2) THEN [err |-> "AssertionError", kfold_indices |-> << >>]
    ELSE [err |-> "none",
          kfold_indices |->
              [i \in 1..k |->
                  << Concatenate(OtherFolds(FoldIndices(n, k), i, 1)),
                     FoldIndices(n, k)[i] >>]]

PureIdle ==
    [fn |-> "none", n |-> 0, k |-> 0, kfold_indices |-> << >>,
     words |-> << >>, pairs |-> << >>, err |-> "none"]

GenerateKfold(n, k) ==
    /\ pure' = [PureIdle EXCEPT !.fn = "generate_kfold", !.n = n, !.k = k,
                   !.kfold_indices = generate_kfold(n, k).kfold_indices,
                   !.err = generate_kfold(n, k).err]
    /\ UNCHANGED <<files, glc, ckp>>
    /\ UNCHANGED contractVars
    /\ UNCHANGED utilVars

\* list(pairwise(words))
Pairwise(words) ==
    /\ pure' = [PureIdle EXCEPT !.fn = "pairwise", !.words = words,
                                  !.pairs = pairwise(words)]
    /\ UNCHANGED <<files, glc, ckp>>
    /\ UNCHANGED contractVars
    /\ UNCHANGED utilVars

Items == {"a", "b", "c"}

ItemLists == UNION {[1..n -> Items] : n \in 0..MaxLen}

HelpersIdle ==
    /\ files = << >>
    /\ glc = GlcIdle
    /\ ckp = CkpIdle
    /\ pure = PureIdle

(***************************************************************************)
(* Specification of the optimizer contract                                 *)
(***************************************************************************)
Init ==
    /\ obj = NoObject
    /\ tried = {}
    /\ last = NoCall
    /\ prev = Before(NoCall)
    /\ runner = RunnerIdle
    /\ fs = {}
    /\ conf = ConfIdle
    /\ ld = LdIdle
    /\ runs = RunsIdle
    /\ cuda = FALSE
    /\ HelpersIdle

Next ==
    \/ \E cls \in Classes : Instantiate(cls)
    \/ \E e \in 0..MaxEpoch : new_epoch(e)
    \/ before_training
    \/ after_training
    \/ get_model_size
    \/ \E h \in BOOLEAN, sc \in BOOLEAN, s \in SUBSET Regions :
          adapt_search_space(h, sc, s)
    \/ \E t \in SUBSET Regions, c \in 0..MaxArch : step(t, c)
    \/ get_final_architecture
    \/ get_op_optimizer

Spec == Init /\ [][Next]_vars

(***************************************************************************)
(* Specification of get_config_from_args over a file system                *)
(***************************************************************************)
ContractIdle ==
    /\ obj = NoObject
    /\ tried = {}
    /\ last = NoCall
    /\ prev = Before(NoCall)
    /\ runner = RunnerIdle

InitConfig ==
    /\ ContractIdle
    /\ fs \in { {}, Prefixes(<<"run">>), Prefixes(DefaultSave \o <<"search">>) }
    /\ conf \in {[ConfIdle EXCEPT !.file = f, !.opts = o] :
                    f \in ConfigFileArgs, o \in OptLists}
    /\ ld = LdIdle
    /\ runs = RunsIdle
    /\ cuda = FALSE
    /\ HelpersIdle

NextConfig ==
    \E d \in {"None", "datapath"} : GetConfig(d)

SpecConfig == InitConfig /\ [][NextConfig]_vars

(***************************************************************************)
(* Specification of the runner script and of get_train_val_loaders         *)
(***************************************************************************)
InitData ==
    /\ ContractIdle
    /\ fs = {}
    /\ conf = ConfIdle
    /\ ld = LdIdle
    /\ runs \in {[RunsIdle EXCEPT !["A"] = Unseeded(n, 0, 0)] : n \in 0..(RngMod - 1)}
    /\ cuda = FALSE
    /\ HelpersIdle

NextData ==
    \/ \E d \in DatasetNames, s \in 0..MaxSeed, pc \in {0, 50, 100},
          ok \in BOOLEAN, n \in 0..MaxTrain :
           GetLoaders("A", d, s, pc, ok, n)
    \/ \E o \in OptimizerNames, s \in SearchSpaceNames : RunRunner(o, s)

SpecData == InitData /\ [][NextData]_vars

(***************************************************************************)
(* Specification of two processes and their random generators              *)
(***************************************************************************)
InitSeed ==
    /\ ContractIdle
    /\ fs = {}
    /\ conf = ConfIdle
    /\ ld = LdIdle
    /\ runs \in [Procs -> {Unseeded(n, p, t) : n \in 0..(RngMod - 1),
                                               p \in 0..(RngMod - 1),
                                               t \in 0..(RngMod - 1)}]
    /\ cuda \in BOOLEAN
    /\ HelpersIdle

NextSeed ==
    \/ \E r \in Procs, s \in 0..MaxSeed : SetSeed(r, s)
    \/ \E r \in Procs : RandomDraw(r)
    \/ \E r \in Procs : NumpyDraw(r)
    \/ \E r \in Procs : StepDraw(r)
    \/ \E r \in Procs :
          GetLoaders(r, "cifar10", ConfigSeed(runs[r]), 50, TRUE, MaxTrain)

SpecSeed == InitSeed /\ [][NextSeed]_vars

(***************************************************************************)
(* Specification of get_last_checkpoint over the pointer files of an       *)
(* experiment directory                                                    *)
(***************************************************************************)
PointerPaths ==
    {PathJoin(DefaultSave, sub, "last_checkpoint") : sub \in {"search", "eval"}}

\* a pointer file: unreadable, cut short, or naming a checkpoint
PointerContents ==
    {File(FALSE, << >>, NoData), File(TRUE, << >>, NoData)} \cup
    {File(TRUE, <<n>>, NoData) : n \in CheckpointNames}

PointerSystems == UNION {[P -> PointerContents] : P \in SUBSET PointerPaths}

\* the experiment directories of the default configuration, and a directory
\* in the place of the search pointer of the given configuration
PointerDirs ==
    Prefixes(DefaultSave \o <<"search">>) \cup Prefixes(DefaultSave \o <<"eval">>)
        \cup Prefixes(PathJoin(GivenSave, "search", "last_checkpoint"))

UtilIdle ==
    /\ conf = ConfIdle
    /\ ld = LdIdle
    /\ runs = RunsIdle
    /\ cuda = FALSE

InitPointer ==
    /\ ContractIdle
    /\ UtilIdle
    /\ fs = PointerDirs
    /\ files \in PointerSystems
    /\ glc = GlcIdle
    /\ ckp = CkpIdle
    /\ pure = PureIdle

NextPointer ==
    \E c \in GlcConfigs, search \in BOOLEAN : GetLastCheckpoint(c, search)

SpecPointer == InitPointer /\ [][NextPointer]_vars

(***************************************************************************)
(* Specification of Checkpointer.load over the checkpoint files of an      *)
(* experiment directory                                                    *)
(***************************************************************************)
\* the dict of a checkpoint file: every key in keys with the state dict v
Data(keys, v) == [k \in keys |-> v]

CheckpointPath(name) == PathJoin(DefaultSave, "search", name)

\* model_0.pth: missing, unreadable, complete, or saved without the model;
\* model_1.pth: missing, or a later checkpoint without the optimizer
CheckpointSystems ==
    { a @@ b :
        a \in { << >>,
                 (CheckpointPath("model_0.pth") :> File(FALSE, << >>, NoData)),
                 (CheckpointPath("model_0.pth") :> File(TRUE, << >>, Data(CkptKeys, 1))),
                 (CheckpointPath("model_0.pth") :>
                     File(TRUE, << >>, Data({"optimizer", "iteration"}, 1))) },
        b \in { << >>,
                 (CheckpointPath("model_1.pth") :>
                     File(TRUE, << >>, Data({"model", "scheduler", "iteration"}, 2))) } }

LoadPaths == {<< >>} \cup {CheckpointPath(n) : n \in CheckpointNames}

InitCheckpoint ==
    /\ ContractIdle
    /\ UtilIdle
    /\ fs = PointerDirs
    /\ files \in CheckpointSystems
    /\ glc = GlcIdle
    /\ ckp = CkpIdle
    /\ pure = PureIdle

NextCheckpoint ==
    \E p \in LoadPaths, c \in Selections, failing \in {{}, {"optimizer"}} :
        Load(p, c, failing)

SpecCheckpoint == InitCheckpoint /\ [][NextCheckpoint]_vars

(***************************************************************************)
(* Specification of the calls of generate_kfold and pairwise               *)
(***************************************************************************)
InitPure ==
    /\ ContractIdle
    /\ UtilIdle
    /\ fs = {}
    /\ HelpersIdle

NextPure ==
    \/ \E n \in 0..MaxN, k \in 0..MaxK : GenerateKfold(n, k)
    \/ \E w \in ItemLists : Pairwise(w)

SpecPure == InitPure /\ [][NextPure]_vars


(***************************************************************************)
(* Claims about the optimizer contract, checked under Spec                 *)
(***************************************************************************)

\* C1: an optimizer class can be instantiated only if it implements all four
\* of step, adapt_search_space, get_final_architecture and get_op_optimizer;
\* constructing MetaOptimizer itself or a class that leaves one of them out
\* raises TypeError and yields no optimizer object.
C1_InstantiationNeedsAllFour ==
    last.op = "construct" =>
        /\ (last.err = "none") <=>
              ({"step", "adapt_search_space", "get_final_architecture",
                "get_op_optimizer"} \subseteq tried)
        /\ last.err = "none" => obj.alive /\ last.ret = "object"
        /\ last.err # "none" =>
              last.err = "TypeError" /\ ~obj.alive /\ last.ret = "None"

\* a class leaving exactly one of the four out has just been refused
C1_Witness ==
    /\ last.op = "construct"
    /\ last.err = "TypeError"
    /\ Cardinality(tried) = 3
    /\ ~obj.alive

C9_StepStaysInScope ==
    [][ last'.op = "step"
        => \A r \in Regions :
              (obj.scoped /\ r \notin obj.scope) => obj'.graph[r] = obj.graph[r] ]_vars

\* a step has changed the one region its scope names and left the other alone
C9_Witness ==
    /\ last.op = "step"
    /\ obj.scoped
    /\ obj.scope = {"cell"}
    /\ obj.graph["cell"] # 0
    /\ obj.graph["macro"] = 0

\* without a scope, steps have changed every region of the graph
C9_UnscopedReachesAll ==
    /\ last.op = "step"
    /\ ~obj.scoped
    /\ \A r \in Regions : obj.graph[r] # 0

(***************************************************************************)
(* Claims about the runner and get_train_val_loaders, checked under        *)
(* SpecData                                                                *)
(***************************************************************************)

\* the events of a call sequence that satisfy a test
RECURSIVE CountCalls(_, _, _)
CountCalls(calls, recv, fn) ==
    IF calls = << >> THEN 0
    ELSE (IF Head(calls).recv = recv /\ Head(calls).fn = fn THEN 1 ELSE 0)
         + CountCalls(Tail(calls), recv, fn)

\* the position of the first such event, 0 when there is none
FirstCall(calls, recv, fn) ==
    IF \E i \in 1..Len(calls) : calls[i].recv = recv /\ calls[i].fn = fn
    THEN CHOOSE i \in 1..Len(calls) :
            /\ calls[i].recv = recv /\ calls[i].fn = fn
            /\ \A j \in 1..(i - 1) : ~(calls[j].recv = recv /\ calls[j].fn = fn)
    ELSE 0

\* C3 (as claimed): in every run of the runner started with a supported
\* optimizer and search space, adapt_search_space is called on the selected
\* optimizer exactly once, before the Trainer is built and before any search
\* or evaluate call.
C3_RunnerAdaptsExactlyOnce ==
    ( /\ runner.pc # "start"
      /\ runner.optimizer \in {"bananas", "oneshot", "rsws"}
      /\ runner.search_space \in {"nasbench101", "nasbench201", "darts"} )
    => /\ CountCalls(runner.calls, "optimizer", "adapt_search_space") = 1
       /\ \A i \in 1..Len(runner.calls) :
             ( \/ runner.calls[i].recv = "Trainer"
               \/ runner.calls[i].fn \in {"search", "evaluate"} )
             => FirstCall(runner.calls, "optimizer", "adapt_search_space") < i

\* C5: get_train_val_loaders with a dataset name outside the thirteen
\* recognized ones raises ValueError naming the dataset, constructs no data
\* loader and returns nothing.
C5_UnknownDatasetRaises ==
    ( /\ ld.ret # "idle"
      /\ ld.dataset \notin
            {"cifar10", "cifar100", "svhn", "ImageNet16-120", "scifar100",
             "ninapro", "jigsaw", "class_object", "class_scene", "autoencoder",
             "segmentsemantic", "normal", "room_layout"} )
    => /\ ld.err = "ValueError"
       /\ ld.named = ld.dataset
       /\ ld.loaders = 0
       /\ ld.ret = "None"

\* the call was made with a name that differs from a recognized one by case
C5_Witness ==
    /\ ld.ret = "None"
    /\ ld.err = "ValueError"
    /\ ld.dataset = "CIFAR10"
    /\ ld.loaders = 0

(***************************************************************************)
(* Claims about set_seed, checked under SpecSeed                           *)
(***************************************************************************)

IsPrefix(s, t) == Len(s) <= Len(t) /\ SubSeq(t, 1, Len(s)) = s

\* C7: two processes that called set_seed with the same seed and have since
\* performed the same operations hold the same generator states (random,
\* numpy, torch) and have produced the same outputs; while one has performed
\* a prefix of the other's operations, its outputs are a prefix of the other's.
C7_SameSeedSameOutputs ==
    \A a, b \in Procs :
        (runs[a].seed >= 0 /\ runs[a].seed = runs[b].seed) =>
            /\ IsPrefix(runs[a].ops, runs[b].ops) => IsPrefix(runs[a].out, runs[b].out)
            /\ runs[a].ops = runs[b].ops =>
                  /\ runs[a].py = runs[b].py
                  /\ runs[a].np = runs[b].np
                  /\ runs[a].torch = runs[b].torch
                  /\ runs[a].out = runs[b].out

\* both processes were seeded alike and have each drawn from Python's
\* generator and taken a search step
C7_Witness ==
    /\ runs["A"].seed >= 0
    /\ runs["A"].seed = runs["B"].seed
    /\ runs["A"].ops = runs["B"].ops
    /\ Len(runs["A"].ops) >= 2
    /\ \E i \in 1..Len(runs["A"].ops) : runs["A"].ops[i][1] = "random"
    /\ \E i \in 1..Len(runs["A"].ops) : runs["A"].ops[i][1] = "step"

(***************************************************************************)
(* Claims about get_config_from_args, checked under SpecConfig             *)
(***************************************************************************)

\* C10: after get_config_from_args returns, config.save is
\* out_dir/config_type/search_space/dataset/predictor/seed of the returned
\* configuration and <save>, <save>/search and <save>/eval exist; no call
\* removes a directory, so a call that finds them already there returns with
\* them in place.
C10_SaveLayout ==
    /\ [](conf.ret = "config" =>
            /\ conf.save = << conf.cfg["out_dir"].v, conf.cfg["config_type"].v,
                              conf.cfg["search_space"].v, conf.cfg["dataset"].v,
                              conf.cfg["predictor"].v, conf.cfg["seed"].v >>
            /\ conf.save \in fs
            /\ (conf.save \o <<"search">>) \in fs
            /\ (conf.save \o <<"eval">>) \in fs)
    /\ [][fs \subseteq fs']_vars

\* a second call with a command-line seed has returned and found its three
\* directories already made by the first
C10_Witness ==
    /\ conf.ret = "config"
    /\ conf.calls = 2
    /\ conf.existed
    /\ conf.cfg["seed"] = Val("int", "1")
    /\ conf.save[6] = "1"

\* the pairs of opts that name the key k, as positions in pairwise(opts)
Mentions(opts, k) ==
    {i \in 1..Len(pairwise(opts)) : pairwise(opts)[i][1] = k}

FirstOf(S) == CHOOSE i \in S : \A j \in S : i <= j

LastOf(S) == CHOOSE i \in S : \A j \in S : j <= i

\* the type a command-line value for the name k is converted to: the type of
\* the file value, and for a new name int for a numeric value, str otherwise
OptType(file, k, value) ==
    IF file[k].t # "absent" THEN file[k].t
    ELSE IF IsNumeric(value) THEN "int" ELSE "str"

\* C11 as stated: whenever get_config_from_args returns, the returned config
\* holds, for every (name, value) pair of args.opts, the command-line value
\* under that name, converted to the type of the file value when the file has
\* the name, to int for a new name with a numeric value and to str otherwise;
\* every name of the file that opts does not mention keeps its file value.
C11_EveryPairHeld ==
    conf.ret = "config" =>
        LET file  == LoadConfig(conf.file)
            pairs == pairwise(conf.opts)
        IN  /\ \A i \in 1..Len(pairs) :
                   conf.cfg[pairs[i][1]] =
                       Construct(OptType(file, pairs[i][1], pairs[i][2]), pairs[i][2])
            /\ \A k \in ConfigKeys :
                   (Mentions(conf.opts, k) = {} /\ file[k].t # "absent")
                       => conf.cfg[k] = file[k]

\* C11, amended: whenever get_config_from_args returns, every name other than
\* the four the function assigns itself after the merge (train_data_file,
\* test_data_file, save, data) holds, when opts mentions it, the value of the
\* last pair that names it, with the type of the file value when the file has
\* the name and otherwise the type chosen at the first pair that names it (int
\* for a numeric value, str otherwise); a name opts does not mention keeps its
\* file value.
C11_OptsOverFile ==
    conf.ret = "config" =>
        LET file  == LoadConfig(conf.file)
            pairs == pairwise(conf.opts)
        IN  \A k \in ConfigKeys \ AssignedKeys :
                LET at == Mentions(conf.opts, k)
                IN  IF at = {}
                    THEN conf.cfg[k] = file[k]
                    ELSE conf.cfg[k] =
                             Construct(OptType(file, k, pairs[FirstOf(at)][2]),
                                       pairs[LastOf(at)][2])

\* a call has returned with a new numeric name made an int and a numeric
\* value for a str name of the file kept a str
C11_Witness ==
    /\ conf.ret = "config"
    /\ conf.opts = <<"epochs", "1", "dataset", "01">>
    /\ conf.cfg["epochs"] = Val("int", "1")
    /\ conf.cfg["dataset"] = Val("str", "01")
    /\ conf.cfg["seed"] = LoadConfig(conf.file)["seed"]

(***************************************************************************)
(* Claims about get_last_checkpoint, checked under SpecPointer             *)
(***************************************************************************)

\* C12: get_last_checkpoint(config, search) never raises; when the pointer
\* file <save>/<sub>/last_checkpoint (sub "search" for a true search, "eval"
\* otherwise) can be read it returns <save>/<sub>/<name> for the name the
\* file records, and when the file is missing or cannot be read it returns
\* the empty string.
C12_LastCheckpointNeverRaises ==
    glc.called =>
        /\ glc.err = "none"
        /\ glc.config.has =>
              LET sub == IF glc.search THEN "search" ELSE "eval"
                  ptr == glc.config.save \o <<sub, "last_checkpoint">>
              IN  IF ptr \in DOMAIN files /\ files[ptr].readable /\ ptr \notin fs
                  THEN /\ Len(glc.ret) = Len(glc.config.save) + 2
                       /\ SubSeq(glc.ret, 1, Len(glc.config.save)) = glc.config.save
                       /\ glc.ret[Len(glc.ret) - 1] = sub
                       /\ \/ files[ptr].lines = << >> /\ glc.ret[Len(glc.ret)] = ""
                          \/ /\ files[ptr].lines # << >>
                             /\ glc.ret[Len(glc.ret)] = files[ptr].lines[1]
                  ELSE glc.ret = << >>

\* the eval pointer names model_1.pth and the call for search = False has
\* returned its path, while the search pointer cannot be read
C12_Witness ==
    /\ glc.called
    /\ ~glc.search
    /\ glc.ret = DefaultSave \o <<"eval", "model_1.pth">>
    /\ PathJoin(DefaultSave, "search", "last_checkpoint") \in DOMAIN files
    /\ ~files[PathJoin(DefaultSave, "search", "last_checkpoint")].readable

(***************************************************************************)
(* Claims about Checkpointer.load, checked under SpecCheckpoint            *)
(***************************************************************************)

\* C13: Checkpointer.load with an empty path returns an empty dict without
\* an exception, reads no file, and leaves the model and every registered
\* checkpointable in the state they had before the call.
C13_EmptyPathLoadsNothing ==
    /\ []((ckp.called /\ ckp.path = << >>) =>
            /\ ckp.err = "none"
            /\ ckp.ret = << >>
            /\ ckp.read = {}
            /\ ckp.handed = {})
    /\ [][(ckp'.called /\ ckp'.path = << >>) =>
            /\ ckp'.model = ckp.model
            /\ ckp'.parts = ckp.parts]_vars

\* an empty-path call was made after an earlier load had changed the model
\* and the optimizer
C13_Witness ==
    /\ ckp.called
    /\ ckp.path = << >>
    /\ ckp.model = 2
    /\ ckp.parts["optimizer"] = 1

\* the names the call selects: all registered ones for None, else the listed
SelectedNames(c) == {SelectedKeys(c)[i] : i \in 1..Len(SelectedKeys(c))}

\* C14 as stated: after a load with a non-empty path has returned, every key
\* of the checkpoint that names a selected checkpointable was handed to a
\* load_state_dict and is absent from the returned dict, and every other key
\* of the checkpoint is in the returned dict with its value unchanged.
C14_EveryOtherKeyReturned ==
    (ckp.called /\ ckp.path # << >> /\ ckp.err = "none") =>
        /\ DOMAIN ckp.ret \subseteq DOMAIN ckp.file
        /\ \A k \in DOMAIN ckp.file :
              IF k \in SelectedNames(ckp.checkpointables)
              THEN <<k, ckp.file[k]>> \in ckp.handed /\ k \notin DOMAIN ckp.ret
              ELSE k \in DOMAIN ckp.ret /\ ckp.ret[k] = ckp.file[k]

\* C14, amended: after a load with a non-empty path has returned, every key
\* of the checkpoint that names a selected checkpointable was handed to that
\* checkpointable's load_state_dict and is absent from the returned dict;
\* the key "model" is loaded into the model and is absent as well; every
\* other key of the checkpoint is returned unchanged, and nothing else is.
C14_UnprocessedKeysReturned ==
    (ckp.called /\ ckp.path # << >> /\ ckp.err = "none") =>
        /\ DOMAIN ckp.ret \subseteq DOMAIN ckp.file
        /\ \A k \in DOMAIN ckp.file :
              IF k = "model"
              THEN ckp.model = ckp.file[k] /\ k \notin DOMAIN ckp.ret
              ELSE IF k \in SelectedNames(ckp.checkpointables)
              THEN /\ <<k, ckp.file[k]>> \in ckp.handed
                   /\ k \notin DOMAIN ckp.ret
              ELSE k \in DOMAIN ckp.ret /\ ckp.ret[k] = ckp.file[k]

\* a load of the complete checkpoint for the optimizer alone has returned
\* the scheduler's and the iteration's entries
C14_Witness ==
    /\ ckp.called
    /\ ckp.err = "none"
    /\ ckp.path = CheckpointPath("model_0.pth")
    /\ ckp.checkpointables = Selection(FALSE, <<"optimizer">>)
    /\ ckp.handed = {<<"optimizer", 1>>}
    /\ ckp.parts["optimizer"] = 1
    /\ DOMAIN ckp.ret = {"scheduler", "iteration"}

(***************************************************************************)
(* Claims about generate_kfold and pairwise, checked under SpecPure        *)
(***************************************************************************)
Elements(a) == {a[i] : i \in 1..Len(a)}

\* C15: generate_kfold(n, k) fails its assertion unless k >= 2; for k >= 2
\* it returns exactly k (training, validation) pairs whose validation sets
\* are pairwise disjoint and together are 0..n-1, each training set being
\* the complement of its validation set in 0..n-1 with no index twice; the
\* first k-1 validation folds have n div k indices and the last fold has
\* all the indices the others leave.
C15_KfoldPartition ==
    pure.fn = "generate_kfold" =>
        LET r   == pure.kfold_indices
            all == 0..(pure.n - 1)
        IN  IF pure.k < 2 THEN pure.err = "AssertionError"
            ELSE /\ pure.err = "none"
                 /\ Len(r) = pure.k
                 /\ \A i, j \in 1..Len(r) :
                       i # j => Elements(r[i][2]) \cap Elements(r[j][2]) = {}
                 /\ UNION {Elements(r[i][2]) : i \in 1..Len(r)} = all
                 /\ \A i \in 1..Len(r) :
                       /\ Elements(r[i][1]) = all \ Elements(r[i][2])
                       /\ Cardinality(Elements(r[i][1])) = Len(r[i][1])
                       /\ Cardinality(Elements(r[i][2])) = Len(r[i][2])
                 /\ \A i \in 1..(Len(r) - 1) : Len(r[i][2]) = pure.n \div pure.k
                 /\ Elements(r[Len(r)][2]) =
                       all \ UNION {Elements(r[i][2]) : i \in 1..(Len(r) - 1)}

\* five examples in two folds: the last fold has the odd one
C15_Witness ==
    /\ pure.fn = "generate_kfold"
    /\ pure.n = 5
    /\ pure.k = 2
    /\ pure.kfold_indices = << << <<2, 3, 4>>, <<0, 1>> >>,
                               << <<0, 1>>, <<2, 3, 4>> >> >>

\* C16: pairwise(s) yields, in order, the non-overlapping pairs (s0, s1),
\* (s2, s3), ...: floor(m / 2) pairs for m items, the i-th (counted from 0)
\* being (s[2i], s[2i+1]); the last item of an odd-length s is dropped and no
\* exception is raised.
C16_PairwiseNonOverlapping ==
    pure.fn = "pairwise" =>
        /\ pure.err = "none"
        /\ Len(pure.pairs) = Len(pure.words) \div 2
        /\ \A i \in 1..Len(pure.pairs) :
              pure.pairs[i] = <<pure.words[2 * i - 1], pure.words[2 * i]>>

\* three items gave one pair, the third item dropped
C16_Witness ==
    /\ pure.fn = "pairwise"
    /\ pure.words = <<"a", "b", "c">>
    /\ pure.pairs = << <<"a", "b">> >>

====
